---- MODULE Spec2Model ----
(***************************************************************************)
(* A model of epic.logging.logregator: the LogregatorHandler installed on  *)
(* the root logger of a process, the LogregatorProcess that carries the    *)
(* installed handlers into a spawned worker, and the Logregator session    *)
(* (queue, handler, patched Process class, consumer thread).               *)
(*                                                                         *)
(* One parent process creates the sessions; workers are spawned from it.   *)
(* The application may also make a LogregatorHandler of its own (dh, on a  *)
(* queue of its own, numbered 0) and call install/uninstall on it, and it  *)
(* may use a session through the with-statement (__enter__/__exit__).      *)
(* Every process has its own root logger.  A log record is                 *)
(*   [name, levelno, msg, exc_info, exc_text, handled]                     *)
(* where msg = [pre, body]: body is the text the call site logged (a       *)
(* number that is unique per logging call) and pre the sequence of         *)
(* "[<addendum>] - " prefixes put in front of it, outermost first.         *)
(***************************************************************************)
EXTENDS Integers, Sequences, FiniteSets, TLC

\* ---------------------------------------------------------------- constants
NOTSET == 0
DEBUG == 10
INFO == 20
WARNING == 30

\* ------------------------------------------------------------------- bounds
\* logging calls made in one behaviour
MaxEmit == 2
\* IterableQueue objects constructed in one behaviour (one per start() that
\* passes its guard)
MaxQueues == 2

\* os.getpid() of the process that constructs the sessions, and of the workers
ParentPid == 1
Workers == {2, 3}
Pids == {ParentPid} \cup Workers

\* The sessions; each has its own sink logger, whose name is the session's key.
Sessions == {"A", "B"}
\* Names of the loggers that log: a business logger and the sinks themselves.
Names == {"X"} \cup Sessions
\* Levels of the logging calls, and the levels a sink is set to.
Levels == {DEBUG, INFO}

None == -1

\* The usage scenarios explored.  A scenario fixes which sessions the
\* application uses, which processes log, under which logger names and at
\* which levels, and whether the application calls setLevel on a started
\* sink (setlevel), meets a consumer thread that fails to start (fail),
\* starts every worker right after constructing it (eager), how many logging
\* calls it makes (emits), how many times it starts a session (queues), the
\* exception information its logging calls carry (excs), whether it makes a
\* LogregatorHandler of its own and calls it directly (api), whether it
\* calls start() on a started session and stop() on one that is not started
\* (again), with which exc_type the with-statement calls __exit__ (exits),
\* and whether the creating process makes its logging calls on threads of
\* their own (threads) or on the main thread, between its other calls, the
\* start method of multiprocessing (method), and the context whose Process
\* it calls to make its workers (maker): mp.Process under the start method
\* spawn, as the tests do, or the Process of mp.get_context("spawn").  The
\* scenario of the concurrent workers starts its session once, and the one
\* of the logging threads starts each of its sessions once.
Scenarios == {
    [id |-> "levels", sessions |-> {"A"}, pids |-> {ParentPid},
     names |-> {"X"}, levels |-> Levels,
     setlevel |-> TRUE, fail |-> FALSE, eager |-> TRUE,
     emits |-> MaxEmit, queues |-> MaxQueues - 1, excs |-> {"None"},
     api |-> FALSE, again |-> FALSE, exits |-> {}, threads |-> FALSE,
     method |-> "spawn", maker |-> "mp"],
    [id |-> "echo", sessions |-> {"A"}, pids |-> {ParentPid, 2},
     names |-> {"X", "A"}, levels |-> {INFO},
     setlevel |-> FALSE, fail |-> FALSE, eager |-> TRUE,
     emits |-> MaxEmit, queues |-> MaxQueues - 1, excs |-> {"None"},
     api |-> FALSE, again |-> FALSE, exits |-> {}, threads |-> FALSE,
     method |-> "spawn", maker |-> "mp"],
    [id |-> "wlevels", sessions |-> {"A"}, pids |-> {2},
     names |-> {"X"}, levels |-> Levels,
     setlevel |-> FALSE, fail |-> FALSE, eager |-> TRUE,
     emits |-> MaxEmit - 1, queues |-> MaxQueues, excs |-> {"None", "exc"},
     api |-> FALSE, again |-> FALSE, exits |-> {}, threads |-> FALSE,
     method |-> "spawn", maker |-> "mp"],
    [id |-> "workers", sessions |-> {"A"}, pids |-> Pids,
     names |-> {"X"}, levels |-> {INFO},
     setlevel |-> FALSE, fail |-> FALSE, eager |-> TRUE,
     emits |-> MaxEmit + 1, queues |-> 1, excs |-> {"None"},
     api |-> FALSE, again |-> FALSE, exits |-> {}, threads |-> FALSE,
     method |-> "spawn", maker |-> "mp"],
    [id |-> "two", sessions |-> Sessions, pids |-> {ParentPid},
     names |-> {"X"}, levels |-> {INFO},
     setlevel |-> FALSE, fail |-> FALSE, eager |-> TRUE,
     emits |-> MaxEmit, queues |-> MaxQueues, excs |-> {"None", "False"},
     api |-> FALSE, again |-> FALSE, exits |-> {}, threads |-> FALSE,
     method |-> "spawn", maker |-> "mp"],
    [id |-> "twow", sessions |-> Sessions, pids |-> {2},
     names |-> {"X"}, levels |-> {INFO},
     setlevel |-> FALSE, fail |-> FALSE, eager |-> TRUE,
     emits |-> MaxEmit - 1, queues |-> MaxQueues, excs |-> {"None"},
     api |-> FALSE, again |-> FALSE, exits |-> {}, threads |-> FALSE,
     method |-> "spawn", maker |-> "mp"],
    [id |-> "fail", sessions |-> Sessions, pids |-> {ParentPid},
     names |-> {"X"}, levels |-> {INFO},
     setlevel |-> FALSE, fail |-> TRUE, eager |-> TRUE,
     emits |-> MaxEmit, queues |-> MaxQueues, excs |-> {"None"},
     api |-> FALSE, again |-> FALSE, exits |-> {}, threads |-> FALSE,
     method |-> "spawn", maker |-> "mp"],
    [id |-> "handler", sessions |-> {"A"}, pids |-> {ParentPid},
     names |-> {"X"}, levels |-> {INFO},
     setlevel |-> FALSE, fail |-> FALSE, eager |-> TRUE,
     emits |-> MaxEmit - 1, queues |-> MaxQueues - 1, excs |-> {"None"},
     api |-> TRUE, again |-> FALSE, exits |-> {}, threads |-> FALSE,
     method |-> "spawn", maker |-> "mp"],
    [id |-> "again", sessions |-> {"A"}, pids |-> {ParentPid},
     names |-> {"X"}, levels |-> {INFO},
     setlevel |-> FALSE, fail |-> TRUE, eager |-> TRUE,
     emits |-> MaxEmit - 1, queues |-> MaxQueues, excs |-> {"None", "False"},
     api |-> FALSE, again |-> TRUE, exits |-> {}, threads |-> FALSE,
     method |-> "spawn", maker |-> "mp"],
    [id |-> "scoped", sessions |-> {"A"}, pids |-> {ParentPid},
     names |-> {"X"}, levels |-> {INFO},
     setlevel |-> FALSE, fail |-> TRUE, eager |-> TRUE,
     emits |-> MaxEmit - 1, queues |-> MaxQueues, excs |-> {"None"},
     api |-> FALSE, again |-> FALSE, exits |-> {"None", "exc"}, threads |-> FALSE,
     method |-> "spawn", maker |-> "mp"],
    [id |-> "lazy", sessions |-> {"A"}, pids |-> Workers,
     names |-> {"X"}, levels |-> {INFO},
     setlevel |-> FALSE, fail |-> FALSE, eager |-> FALSE,
     emits |-> MaxEmit - 1, queues |-> MaxQueues, excs |-> {"None"},
     api |-> FALSE, again |-> FALSE, exits |-> {}, threads |-> FALSE,
     method |-> "spawn", maker |-> "mp"],
    [id |-> "lazyctx", sessions |-> {"A"}, pids |-> Workers,
     names |-> {"X"}, levels |-> {INFO},
     setlevel |-> FALSE, fail |-> FALSE, eager |-> FALSE,
     emits |-> MaxEmit - 1, queues |-> MaxQueues - 1, excs |-> {"None"},
     api |-> FALSE, again |-> FALSE, exits |-> {}, threads |-> FALSE,
     method |-> "fork", maker |-> "spawn"],
    [id |-> "threads", sessions |-> Sessions, pids |-> {ParentPid},
     names |-> {"X"}, levels |-> {INFO},
     setlevel |-> FALSE, fail |-> FALSE, eager |-> TRUE,
     emits |-> MaxEmit - 1, queues |-> Cardinality(Sessions), excs |-> {"None"},
     api |-> FALSE, again |-> FALSE, exits |-> {}, threads |-> TRUE,
     method |-> "spawn", maker |-> "mp"] }

VARIABLES
    scn,              \* the usage scenario of this behaviour (fixed by Init)
    root,             \* per process: logging.root = [level, handlers]
    Process,          \* per patched context: ctx.Process, in the parent
    sinkLevel,        \* per session: self.logger.level
    old_process,      \* per session: self._old_process, per patched context
    input_queue,      \* per session: self._input_queue (a queue id or None)
    handler,          \* per session: self._handler (its queue id, or None)
    consumer_thread,  \* per session: "None", or the thread: "running"/"finished"
    pc,               \* per session: "idle", or "joining" inside stop()
    queues,           \* the IterableQueue objects constructed so far
    out,              \* per session: what the sink's own handlers were given
    wstate,           \* per worker: "none", "constructed", "running", "done"
    wsnap,            \* per worker: self._logregator_handlers
    wborn,            \* history: per worker, the queues of the sessions in
                      \* whose window it was constructed
    wmade,            \* history: per worker, ctx.Process and logging.root.handlers
                      \* of the parent when the worker object was constructed
    emitted,          \* history: the logging calls made so far
    raised,           \* history: an exception reached the application
    qinfo,            \* history: per queue, [owner, ok, levelChanged, level, exc,
                      \* arrived]:
                      \* the session that made it, whether its thread started,
                      \* whether setLevel was called on the sink in that window,
                      \* the sink's effective level when start() was called, and
                      \* the exception that start() raised, and the numbers
                      \* of the logging calls whose records were put into
                      \* it, in the order of the puts
    launchFailed,     \* history: a consumer thread failed to start
    lifo,             \* history: no session was stopped inside a younger one's window
    dh,               \* the LogregatorHandler object the application made itself
    dhq,              \* the items put into the application's own queue, the
                      \* output_queue of dh
    hcall,            \* history: the last direct call of dh.install/uninstall
    noop,             \* history: the start()/stop() calls that found nothing to do
    exited,           \* history: per session, the last __exit__ call
    cur,              \* per logging call made so far, where it stands inside
                      \* Logger.callHandlers: [i, record, hdlr], i the
                      \* position of the iteration over logging.root.handlers
                      \* (0: the call has ended), hdlr the handler the
                      \* iteration holds (NoHandler between two iterations)
    taken             \* per session: the record the consumer thread took from
                      \* the queue and is about to give to self.logger.handle

\* The variables of the application's own handler and of the call history
apiVars == <<dh, dhq, hcall, noop, exited>>

vars == <<scn, root, Process, sinkLevel, old_process, input_queue, handler,
          consumer_thread, pc, queues, out, wstate, wsnap, wborn, wmade, emitted, raised,
          qinfo, launchFailed, lifo, dh, dhq, hcall, noop, exited, cur, taken>>

\* ------------------------------------------------------------ the channel
\* IterableQueue("multiprocessing"): put appends unless no_more_input() was
\* called, in which case it raises queue.Full; iteration yields the items in
\* arrival order and ends when the queue is closed and empty.
NewQueue == [items |-> <<>>, closed |-> FALSE]

put(qs, q, item) ==
    IF qs[q].closed
    THEN [queues |-> qs, exc |-> "Full"]
    ELSE [queues |-> [qs EXCEPT ![q].items = Append(@, item)], exc |-> "none"]

no_more_input(qs, q) == [qs EXCEPT ![q].closed = TRUE]

Exhausted(qs, q) == qs[q].closed /\ qs[q].items = <<>>

\* ------------------------------------------------------ LogregatorHandler
\* is_handled not seeing the mark
is_handledNever(record) == FALSE

is_handled(record) == record.handled

mark_as_handled(record) == [record EXCEPT !.handled = TRUE]

\* Lines 50-52 of emit: a record whose exc_info is not None has it rendered
\* to text and dropped.  traceback.format_exception(*exc_info) raises
\* TypeError when exc_info is not an exception triple: Logger._log keeps a
\* false value other than None (exc_info=False, 0, ()) as it was given.
Rendered(record) ==
    IF record.exc_info = "None"
    THEN [record |-> record, exc |-> "none"]
    ELSE IF record.exc_info = "False"
         THEN [record |-> record, exc |-> "TypeError"]
         ELSE [record |-> [record EXCEPT !.exc_text = "traceback", !.exc_info = "None"],
               exc |-> "none"]

\* emit, run in process pid: the new queues, the exception that escapes, the
\* record as emit leaves it (it is changed in place), the call of
\* output_queue.put it made ("none", "ok", or "Full" when the queue refused
\* the item) and the items it put into a queue that is not a session's (the
\* application's own queue, which takes every item).
emit(qs, h, pid, record) ==
    IF is_handled(record)
    THEN [queues |-> qs, exc |-> "none", record |-> record, put |-> "none", own |-> <<>>]
    ELSE IF record.levelno >= h.level
         THEN LET x == Rendered(record)
                  r == put(qs, h.output_queue, <<pid, x.record>>)
              IN  IF x.exc # "none"
                  THEN [queues |-> qs, exc |-> x.exc, record |-> record,
                        put |-> "none", own |-> <<>>]
                  ELSE IF h.output_queue \notin DOMAIN qs
                       THEN [queues |-> qs, exc |-> "none", record |-> x.record,
                             put |-> "ok", own |-> << <<pid, x.record>> >>]
                       ELSE [queues |-> r.queues,
                             exc |-> IF r.exc = "Full" THEN "none" ELSE r.exc,
                             record |-> x.record,
                             put |-> IF r.exc = "Full" THEN "Full" ELSE "ok",
                             own |-> <<>>]
         ELSE [queues |-> qs, exc |-> "none", record |-> record, put |-> "none", own |-> <<>>]

\* `self in logging.root.handlers`: a handler object is known by its queue
\* (a process holds one handler per queue)
InRoot(rt, q) == \E i \in DOMAIN rt.handlers : rt.handlers[i].output_queue = q

\* install without the test that the handler is already installed
installAgain(rt, h) ==
    [level |-> NOTSET + 1,
     handlers |-> Append(rt.handlers, [h EXCEPT !.old_root_level = rt.level])]

install(rt, h) ==
    IF InRoot(rt, h.output_queue)
    THEN rt
    ELSE [level |-> NOTSET + 1,
          handlers |-> Append(rt.handlers, [h EXCEPT !.old_root_level = rt.level])]

uninstall(rt, q) ==
    IF InRoot(rt, q)
    THEN LET i == CHOOSE i \in DOMAIN rt.handlers : rt.handlers[i].output_queue = q
             h == rt.handlers[i]
         IN  IF h.old_root_level = None
             THEN [root |-> rt, exc |-> "RuntimeError"]
             ELSE [root |-> [level |-> h.old_root_level,
                             handlers |-> SelectSeq(rt.handlers,
                                            LAMBDA x : x.output_queue # q)],
                   exc |-> "none"]
    ELSE [root |-> rt, exc |-> "none"]

\* One iteration of the loop of Logger.callHandlers: the handler is given the
\* record if its level admits it
callHandler(qs, h, pid, record) ==
    IF record.levelno >= h.level
    THEN emit(qs, h, pid, record)
    ELSE [queues |-> qs, exc |-> "none", record |-> record, put |-> "none", own |-> <<>>]

\* Logger.callHandlers at the root logger of process pid, run without any
\* other thread changing the list: every handler whose level admits the
\* record is given it, in list order, until one raises.
RECURSIVE callHandlers(_, _, _, _, _)
callHandlers(qs, hs, i, pid, record) ==
    IF i > Len(hs)
    THEN [queues |-> qs, exc |-> "none", record |-> record, own |-> <<>>]
    ELSE LET r == callHandler(qs, hs[i], pid, record)
         IN  IF r.exc # "none"
             THEN [queues |-> r.queues, exc |-> r.exc, record |-> r.record,
                   own |-> r.own]
             ELSE LET t == callHandlers(r.queues, hs, i + 1, pid, r.record)
                  IN  [t EXCEPT !.own = r.own \o @]

\* ------------------------------------------------------------- Logregator
my_pid(s) == ParentPid

LoggerName(s) == s

\* started read off the handler instead of the thread
startedByHandler(s) == handler[s] # None

started(s) == consumer_thread[s] # "None"

getEffectiveLevel(s) ==
    IF sinkLevel[s] # NOTSET THEN sinkLevel[s] ELSE root[ParentPid].level

\* the re-check of the level left out of the loop
isEnabledAlways(s, levelno) == TRUE

isEnabledFor(s, levelno) == levelno >= getEffectiveLevel(s)

\* the addendum without the origin's pid
AddendumNoPid(s, pid) == <<LoggerName(s)>>

Addendum(s, pid) ==
    IF my_pid(s) # pid THEN <<LoggerName(s), "PID", pid>> ELSE <<LoggerName(s)>>

\* the loop body with the self-echo test on the logger's name alone
ConsumedEchoAnyPid(s, pid, record) ==
    IF ~isEnabledFor(s, record.levelno)
    THEN [act |-> "skip", record |-> record]
    ELSE IF record.name = LoggerName(s)
         THEN [act |-> "skip", record |-> record]
         ELSE [act |-> "handle",
               record |-> mark_as_handled(
                   [record EXCEPT !.msg.pre = <<Addendum(s, pid)>> \o @])]

\* the loop body with the self-echo test on the pid alone: every record of
\* the creating process is skipped
ConsumedEchoAnyName(s, pid, record) ==
    IF ~isEnabledFor(s, record.levelno)
    THEN [act |-> "skip", record |-> record]
    ELSE IF my_pid(s) = pid
         THEN [act |-> "skip", record |-> record]
         ELSE [act |-> "handle",
               record |-> mark_as_handled(
                   [record EXCEPT !.msg.pre = <<Addendum(s, pid)>> \o @])]

\* What the loop body does with one (pid, record): it skips it, or hands the
\* rewritten, marked record to self.logger.handle
Consumed(s, pid, record) ==
    IF ~isEnabledFor(s, record.levelno)
    THEN [act |-> "skip", record |-> record]
    ELSE IF my_pid(s) = pid /\ record.name = LoggerName(s)
         THEN [act |-> "skip", record |-> record]
         ELSE [act |-> "handle",
               record |-> mark_as_handled(
                   [record EXCEPT !.msg.pre = <<Addendum(s, pid)>> \o @])]

\* ------------------------------------------------------ LogregatorProcess
\* __init__, in the parent: the (level, queue) of every installed handler
Snapshot(rt) == [i \in DOMAIN rt.handlers |->
                    <<rt.handlers[i].level, rt.handlers[i].output_queue>>]

\* a handler made without the level it was given
NewHandlerNotset(level, q) == [level |-> NOTSET, output_queue |-> q, old_root_level |-> None]

\* LogregatorHandler(level, output_queue)
NewHandler(level, q) == [level |-> level, output_queue |-> q, old_root_level |-> None]

RECURSIVE InstallAll(_, _, _)
InstallAll(rt, snap, i) ==
    IF i > Len(snap)
    THEN rt
    ELSE InstallAll(install(rt, NewHandler(snap[i][1], snap[i][2])), snap, i + 1)

RECURSIVE UninstallAll(_, _, _)
UninstallAll(rt, snap, i) ==
    IF i > Len(snap)
    THEN [root |-> rt, exc |-> "none"]
    ELSE LET r == uninstall(rt, snap[i][2])
         IN  IF r.exc # "none" THEN r ELSE UninstallAll(r.root, snap, i + 1)

\* The contexts a session patches: mp.get_context("spawn") ("spawn"), and
\* under the start method spawn the modules multiprocessing ("mp") and
\* multiprocessing.context ("mp.context") as well
Patched(method) ==
    IF method = "spawn" THEN {"spawn", "mp", "mp.context"} ELSE {"spawn"}

\* ctx.Process before any start(): SpawnProcess in the spawn context, the
\* class multiprocessing.context.Process in the two modules
Plain(ctx) == IF ctx = "spawn" THEN "SpawnProcess" ELSE "Process"

\* ctx.Process of every patched context before any start()
Original == [ctx \in Patched(scn.method) |-> Plain(ctx)]

\* ---------------------------------------------------------------- initial
FreshRoot == [level |-> WARNING, handlers |-> <<>>]

\* No direct call of the application's handler has been made yet.  A call is
\* recorded as: the method (op), whether the handler was in
\* logging.root.handlers (reg) and its _old_root_level (old) when the call
\* was made, the exception the call raised (exc), logging.root before and
\* after the call, the root level found by the last install() that
\* registered the handler (saved), and whether install() was called again
\* since while the handler was registered (twice).
NoCall == [op |-> "none", reg |-> FALSE, old |-> None, exc |-> "none",
           before |-> FreshRoot, after |-> FreshRoot, saved |-> None,
           twice |-> FALSE]

\* No logging call is inside Logger.callHandlers
NoRecord == [name |-> "", levelno |-> NOTSET, msg |-> [pre |-> <<>>, body |-> 0],
             exc_info |-> "None", exc_text |-> "None", handled |-> FALSE]

NoHandler == [level |-> NOTSET, output_queue |-> 0, old_root_level |-> None]

\* A logging call that has ended
NoLog == [i |-> 0, record |-> NoRecord, hdlr |-> NoHandler]

\* The consumer thread holds no record: it is between two iterations
NoTaken == [q |-> 0, record |-> NoRecord, eff |-> NOTSET]

\* No worker object has been constructed yet
NotMade == [cls |-> "none", handlers |-> <<>>]

\* No __exit__ call has been made yet.  A call is recorded as its exc_type
\* (exc) and the last queue the session had made when it was called (at).
NoExit == [exc |-> "-", at |-> 0]

Init ==
    /\ scn \in Scenarios
    /\ root = [p \in Pids |-> FreshRoot]
    /\ Process = [ctx \in Patched(scn.method) |-> Plain(ctx)]
    /\ sinkLevel \in [Sessions -> scn.levels]
    /\ \A s \in Sessions \ scn.sessions : sinkLevel[s] = INFO
    /\ old_process = [s \in Sessions |-> [ctx \in Patched(scn.method) |-> "None"]]
    /\ input_queue = [s \in Sessions |-> None]
    /\ handler = [s \in Sessions |-> None]
    /\ consumer_thread = [s \in Sessions |-> "None"]
    /\ pc = [s \in Sessions |-> "idle"]
    /\ queues = <<>>
    /\ out = [s \in Sessions |-> <<>>]
    /\ wstate = [w \in Workers |-> "none"]
    /\ wsnap = [w \in Workers |-> <<>>]
    /\ wborn = [w \in Workers |-> {}]
    /\ wmade = [w \in Workers |-> NotMade]
    /\ emitted = <<>>
    /\ raised = FALSE
    /\ qinfo = <<>>
    /\ launchFailed = FALSE
    /\ lifo = TRUE
    /\ dh = NewHandler(INFO, 0)
    /\ dhq = <<>>
    /\ hcall = NoCall
    /\ noop = {}
    /\ exited = [s \in Sessions |-> NoExit]
    /\ cur = <<>>
    /\ taken = [s \in Sessions |-> NoTaken]

\* The logging call n is in progress
Active(n) == cur[n].i # 0

\* A logging call of process p is in progress
InCall(p) == \E n \in DOMAIN cur : Active(n) /\ emitted[n].pid = p

\* The main thread of the parent is not inside a logging call
NotLogging == InCall(ParentPid) => scn.threads

\* The main thread of the parent is blocked while a stop() waits in join(),
\* and busy while it is inside a logging call.
MainFree == NotLogging /\ \A s \in Sessions : pc[s] = "idle"

\* The main thread is free to make its next call: in an eager scenario it
\* starts a worker it constructed before anything else.
MainReady == MainFree /\ (scn.eager => \A w \in Workers : wstate[w] # "constructed")

\* A session is inside its started window: start() returned, stop() not called.
InWindow(s) == started(s) /\ pc[s] = "idle"

\* History: start() or stop() of the session of queue q is called while
\* logging calls are in progress.  Such a call is not one made between the
\* return of start() and the call of stop(): q leaves its dueq and enters
\* its ovq.
Overlapped(q) ==
    [n \in DOMAIN emitted |->
        IF Active(n)
        THEN [emitted[n] EXCEPT !.dueq = @ \ {q}, !.ovq = @ \cup {q}]
        ELSE emitted[n]]

\* ---------------------------------------------------------------- actions
\* start without the try/except around the launch of the thread: the
\* exception leaves start(), and the Thread object that was assigned stays
StartBodyNoCatch(s, ok) ==
    /\ s \in scn.sessions
    /\ ok \/ scn.fail
    /\ MainReady
    /\ ~started(s)
    /\ Len(queues) < scn.queues
    /\ LET q == Len(queues) + 1
           h == NewHandler(getEffectiveLevel(s), q)
       IN  /\ queues' = Append(queues, NewQueue)
           /\ input_queue' = [input_queue EXCEPT ![s] = q]
           /\ handler' = [handler EXCEPT ![s] = q]
           /\ root' = [root EXCEPT ![ParentPid] = install(@, h)]
           /\ old_process' = [old_process EXCEPT ![s] = Process]
           /\ Process' = [ctx \in DOMAIN Process |-> "LogregatorProcess"]
           /\ consumer_thread' = [consumer_thread EXCEPT ![s] =
                                     IF ok THEN "running" ELSE "unstarted"]
           /\ qinfo' = Append(qinfo, [owner |-> s, ok |-> ok, levelChanged |-> FALSE,
                                    level |-> getEffectiveLevel(s),
                                    exc |-> IF ok THEN "none" ELSE "RuntimeError",
                                    arrived |-> <<>>])
           /\ launchFailed' = (launchFailed \/ ~ok)
           /\ raised' = (raised \/ ~ok)
           /\ emitted' = Overlapped(q)
    /\ UNCHANGED <<scn, cur, taken, apiVars, sinkLevel, pc, out, wstate, wsnap, wborn, wmade, lifo>>

\* Logregator.start, the thread starting (ok) or failing to start
StartBody(s, ok) ==
    /\ s \in scn.sessions
    /\ ok \/ scn.fail
    /\ MainReady
    /\ ~started(s)
    /\ Len(queues) < scn.queues
    /\ LET q == Len(queues) + 1
           h == NewHandler(getEffectiveLevel(s), q)
       IN  /\ queues' = Append(queues, NewQueue)
           /\ input_queue' = [input_queue EXCEPT ![s] = q]
           /\ handler' = [handler EXCEPT ![s] = q]
           /\ root' = [root EXCEPT ![ParentPid] = install(@, h)]
           /\ old_process' = [old_process EXCEPT ![s] = Process]
           /\ Process' = [ctx \in DOMAIN Process |-> "LogregatorProcess"]
           /\ consumer_thread' = [consumer_thread EXCEPT ![s] =
                                     IF ok THEN "running" ELSE "None"]
           /\ qinfo' = Append(qinfo, [owner |-> s, ok |-> ok, levelChanged |-> FALSE,
                                    level |-> getEffectiveLevel(s), exc |-> "none",
                                    arrived |-> <<>>])
           /\ launchFailed' = (launchFailed \/ ~ok)
           /\ emitted' = Overlapped(q)
    /\ UNCHANGED <<scn, cur, taken, apiVars, sinkLevel, pc, out, wstate, wsnap, wborn, wmade, raised, lifo>>

Start(s) == StartBody(s, TRUE)

StartFail(s) == StartBody(s, FALSE)

\* Logregator.stop up to the join: the queue is closed
StopBody(s) ==
    /\ MainReady
    /\ started(s)
    /\ queues' = no_more_input(queues, input_queue[s])
    /\ pc' = [pc EXCEPT ![s] = "joining"]
    /\ lifo' = (lifo /\ \A t \in Sessions :
                           started(t) => input_queue[t] <= input_queue[s])
    /\ emitted' = Overlapped(input_queue[s])
    /\ UNCHANGED <<scn, cur, taken, root, Process, sinkLevel, old_process, input_queue, handler,
                   consumer_thread, out, wstate, wsnap, wborn, wmade, raised,
                   qinfo, launchFailed>>

\* stop() called by the application
StopBegin(s) == StopBody(s) /\ UNCHANGED apiVars

\* stop() going on without waiting for the consumer thread
JoinedNoWait(s) == TRUE

\* self._consumer_thread.join() returns
Joined(s) == consumer_thread[s] = "finished"

\* stop() leaving the joined thread in self._consumer_thread
StopFinishKeepThread(s) ==
    /\ pc[s] = "joining"
    /\ Joined(s)
    /\ LET r == uninstall(root[ParentPid], handler[s])
       IN  /\ root' = [root EXCEPT ![ParentPid] = r.root]
           /\ raised' = (raised \/ r.exc # "none")
    /\ handler' = [handler EXCEPT ![s] = None]
    /\ input_queue' = [input_queue EXCEPT ![s] = None]
    /\ Process' = old_process[s]
    /\ pc' = [pc EXCEPT ![s] = "idle"]
    /\ UNCHANGED <<scn, cur, taken, apiVars, sinkLevel, old_process, queues, out, wstate, wsnap, wborn, wmade,
                   emitted, qinfo, launchFailed, lifo, consumer_thread>>

\* Logregator.stop from the return of join() to its end
StopFinish(s) ==
    /\ pc[s] = "joining"
    /\ Joined(s)
    /\ LET r == uninstall(root[ParentPid], handler[s])
       IN  /\ root' = [root EXCEPT ![ParentPid] = r.root]
           /\ raised' = (raised \/ r.exc # "none")
    /\ consumer_thread' = [consumer_thread EXCEPT ![s] = "None"]
    /\ handler' = [handler EXCEPT ![s] = None]
    /\ input_queue' = [input_queue EXCEPT ![s] = None]
    /\ Process' = old_process[s]
    /\ pc' = [pc EXCEPT ![s] = "idle"]
    /\ UNCHANGED <<scn, cur, taken, apiVars, sinkLevel, old_process, queues, out, wstate, wsnap, wborn, wmade,
                   emitted, qinfo, launchFailed, lifo>>

\* History: the record of logging call n was put into every queue that is
\* longer in qs than it is now
Arrived(qs, n) ==
    [q \in DOMAIN qinfo |->
        IF Len(qs[q].items) > Len(queues[q].items)
        THEN [qinfo[q] EXCEPT !.arrived = Append(@, n)]
        ELSE qinfo[q]]

\* One iteration of the loop of _consume_logs_proc up to the call of
\* self.logger.handle: the item is taken, tested and rewritten
Consume(s) ==
    /\ consumer_thread[s] = "running"
    /\ taken[s].q = 0
    /\ queues[input_queue[s]].items # <<>>
    /\ LET q == input_queue[s]
           item == Head(queues[q].items)
           c == Consumed(s, item[1], item[2])
       IN  /\ queues' = [queues EXCEPT ![q].items = Tail(@)]
           /\ taken' = IF c.act = "skip"
                       THEN taken
                       ELSE [taken EXCEPT ![s] = [q |-> q, record |-> c.record,
                                                  eff |-> getEffectiveLevel(s)]]
    /\ UNCHANGED <<scn, cur, apiVars, root, Process, sinkLevel, old_process, input_queue,
                   handler, consumer_thread, pc, out, wstate, wsnap, wborn, wmade,
                   emitted, raised, qinfo, launchFailed, lifo>>

\* self.logger.handle(record) in the consumer thread: the sink's handlers are
\* given the record, then the root logger's.  No lock is held between the
\* test of the level and this call.  An entry of out records the sink's
\* effective level when the level was tested (eff) and now (now).
Dispatch(s) ==
    /\ taken[s].q # 0
    /\ LET r == callHandlers(queues, root[ParentPid].handlers, 1,
                             ParentPid, taken[s].record)
       IN  /\ out' = [out EXCEPT ![s] = Append(@,
                        [record |-> taken[s].record, via |-> taken[s].q,
                         eff |-> taken[s].eff, now |-> getEffectiveLevel(s)])]
           /\ queues' = r.queues
           /\ dhq' = dhq \o r.own
           /\ qinfo' = Arrived(r.queues, taken[s].record.msg.body)
           /\ raised' = (raised \/ r.exc # "none")
    /\ taken' = [taken EXCEPT ![s] = NoTaken]
    /\ UNCHANGED <<scn, cur, dh, hcall, noop, exited, root, Process, sinkLevel, old_process,
                   input_queue, handler, consumer_thread, pc, wstate, wsnap, wborn,
                   wmade, emitted, launchFailed, lifo>>

\* The loop of _consume_logs_proc ends: the thread finishes
ConsumerExit(s) ==
    /\ consumer_thread[s] = "running"
    /\ taken[s].q = 0
    /\ Exhausted(queues, input_queue[s])
    /\ consumer_thread' = [consumer_thread EXCEPT ![s] = "finished"]
    /\ UNCHANGED <<scn, cur, taken, apiVars, root, Process, sinkLevel, old_process, input_queue, handler,
                   pc, queues, out, wstate, wsnap, wborn, wmade, emitted, raised, qinfo,
                   launchFailed, lifo>>

\* self.logger.setLevel, called by the application while the session is started
SetLevel(s, l) ==
    /\ scn.setlevel
    /\ NotLogging
    /\ InWindow(s)
    /\ l # sinkLevel[s]
    /\ sinkLevel' = [sinkLevel EXCEPT ![s] = l]
    /\ qinfo' = [qinfo EXCEPT ![input_queue[s]].levelChanged = TRUE]
    /\ UNCHANGED <<scn, cur, taken, apiVars, root, Process, old_process, input_queue, handler,
                   consumer_thread, pc, queues, out, wstate, wsnap, wborn, wmade,
                   emitted, raised, launchFailed, lifo>>

\* A logging call logger.log(levelno, body, exc_info=...) of the logger `name`
\* in process p.  In a worker and for the business logger the logger's own
\* level admits the call (business_code sets it to levelno); a sink logging
\* in the parent is subject to its own level.
NewRecord(name, levelno, exc_info) ==
    [name |-> name, levelno |-> levelno,
     msg |-> [pre |-> <<>>, body |-> Len(emitted) + 1],
     exc_info |-> exc_info, exc_text |-> "None", handled |-> FALSE]

\* History: the entry of a logging call after the handler h was called with
\* the record and the call returned r: the queue the record was put into,
\* the closed queue that refused it, the exception raised
Called(e, h, r) ==
    LET q == h.output_queue
    IN  [e EXCEPT
           !.putq = IF r.put = "ok" /\ r.own = <<>> THEN @ \cup {q} ELSE @,
           !.closedq = IF r.put = "Full" THEN @ \cup {q} ELSE @,
           !.exc = r.exc,
           !.done = (r.exc # "none")]

\* logger.log up to the call of Logger.callHandlers at the root logger: the
\* record is made and, when the logger is a sink, given to the sink's own
\* handlers; logging.root.handlers has not been read yet.  A worker makes
\* its calls one after the other, and so does the creating process on its
\* main thread, between its other calls; when the creating process logs on
\* threads of their own, start(), stop() and further logging calls run
\* while a call is in progress.  Calls of different processes overlap.  The
\* history entry of the call records the queues its record was put into
\* (putq), the closed queues it was refused by (closedq), the queues of the
\* sessions that were in their window when the call began and admit it
\* (dueq, less the sessions stopped while the call was in progress), the
\* queues of the sessions started or stopped during the call (ovq), the
\* exception the call raised (exc), whether the call has ended (done), and
\* the thread that made it (0: the main thread of its process; otherwise a
\* thread of its own, numbered as the call).
Log(p, name, levelno, exc_info) ==
    /\ Len(emitted) < scn.emits
    /\ p \in scn.pids /\ name \in scn.names /\ levelno \in scn.levels
    /\ exc_info \in scn.excs
    /\ p \in Workers => wstate[p] = "running" /\ ~InCall(p)
    /\ p = ParentPid =>
          (scn.threads \/ (~InCall(p) /\ \A s \in Sessions : pc[s] = "idle"))
    /\ (p = ParentPid /\ name \in Sessions) => isEnabledFor(name, levelno)
    /\ LET record == NewRecord(name, levelno, exc_info)
           n == Len(emitted) + 1
           e == [pid |-> p, name |-> name, levelno |-> levelno,
                 exc_info |-> exc_info, putq |-> {}, closedq |-> {},
                 dueq |-> {input_queue[s] : s \in
                             {t \in Sessions :
                                /\ InWindow(t)
                                /\ p \in Workers => input_queue[t] \in wborn[p]
                                /\ levelno >= getEffectiveLevel(t)
                                /\ ~(p = my_pid(t) /\ name = LoggerName(t))}},
                 ovq |-> {}, exc |-> "none", done |-> FALSE,
                 thread |-> IF p = ParentPid /\ scn.threads THEN n ELSE 0]
       IN  /\ out' = IF p = ParentPid /\ name \in Sessions
                     THEN [out EXCEPT ![name] = Append(@,
                             [record |-> record, via |-> 0,
                              eff |-> getEffectiveLevel(name),
                              now |-> getEffectiveLevel(name)])]
                     ELSE out
           /\ emitted' = Append(emitted, e)
           /\ cur' = Append(cur, [i |-> 1, record |-> record, hdlr |-> NoHandler])
    /\ UNCHANGED <<scn, taken, apiVars, root, Process, sinkLevel, old_process, input_queue,
                   handler, consumer_thread, pc, queues, wstate, wsnap, wborn, wmade,
                   raised, qinfo, launchFailed, lifo>>

\* The body of one iteration of `for hdlr in c.handlers` of logging call n:
\* the handler taken from the list is given the record if its level admits
\* it.  The handler is the object the iteration holds, whether or not it is
\* still on the list.  An exception raised by the handler ends the call and
\* reaches the call site.
CallHandler(n) ==
    /\ n \in DOMAIN cur
    /\ cur[n].hdlr # NoHandler
    /\ LET r == callHandler(queues, cur[n].hdlr, emitted[n].pid, cur[n].record)
       IN  /\ queues' = r.queues
           /\ dhq' = dhq \o r.own
           /\ qinfo' = Arrived(r.queues, n)
           /\ raised' = (raised \/ r.exc # "none")
           /\ emitted' = [emitted EXCEPT ![n] = Called(@, cur[n].hdlr, r)]
           /\ cur' = [cur EXCEPT ![n] =
                         IF r.exc # "none"
                         THEN NoLog
                         ELSE [@ EXCEPT !.hdlr = NoHandler, !.record = r.record]]
    /\ UNCHANGED <<scn, taken, dh, hcall, noop, exited, root, Process, sinkLevel,
                   old_process, input_queue, handler, consumer_thread, pc, out,
                   wstate, wsnap, wborn, wmade, launchFailed, lifo>>

\* The next step of `for hdlr in c.handlers` of logging call n, at the root
\* logger of its process: the list is read where the iteration stands,
\* without a lock, so a handler removed or added by another thread in the
\* meantime shifts or extends what is left of it.
NextHandler(n) ==
    /\ n \in DOMAIN cur
    /\ Active(n)
    /\ cur[n].hdlr = NoHandler
    /\ cur[n].i <= Len(root[emitted[n].pid].handlers)
    /\ cur' = [cur EXCEPT ![n].hdlr = root[emitted[n].pid].handlers[cur[n].i],
                          ![n].i = @ + 1]
    /\ UNCHANGED <<scn, taken, apiVars, root, Process, sinkLevel, old_process, input_queue,
                   handler, consumer_thread, pc, queues, out, wstate, wsnap, wborn,
                   wmade, emitted, raised, qinfo, launchFailed, lifo>>

\* The iteration of logging call n finds the list exhausted: the call returns
LogReturn(n) ==
    /\ n \in DOMAIN cur
    /\ Active(n)
    /\ cur[n].hdlr = NoHandler
    /\ cur[n].i > Len(root[emitted[n].pid].handlers)
    /\ cur' = [cur EXCEPT ![n] = NoLog]
    /\ emitted' = [emitted EXCEPT ![n].done = TRUE]
    /\ UNCHANGED <<scn, taken, apiVars, root, Process, sinkLevel, old_process, input_queue,
                   handler, consumer_thread, pc, queues, out, wstate, wsnap, wborn,
                   wmade, raised, qinfo, launchFailed, lifo>>

\* ctx.Process(target=...) in the parent, ctx the context the application
\* makes its workers with: LogregatorProcess.__init__ when the class is
\* patched in, the plain class of the context (no handlers carried) otherwise
Construct(w) ==
    /\ w \in scn.pids
    /\ MainReady
    /\ wstate[w] = "none"
    /\ wstate' = [wstate EXCEPT ![w] = "constructed"]
    /\ wsnap' = [wsnap EXCEPT ![w] = IF Process[scn.maker] = "LogregatorProcess"
                                     THEN Snapshot(root[ParentPid])
                                     ELSE <<>>]
    /\ wborn' = [wborn EXCEPT ![w] = {input_queue[s] : s \in
                                        {t \in Sessions : InWindow(t)}}]
    /\ wmade' = [wmade EXCEPT ![w] = [cls |-> Process[scn.maker],
                                      handlers |-> root[ParentPid].handlers]]
    /\ UNCHANGED <<scn, cur, taken, apiVars, root, Process, sinkLevel, old_process, input_queue, handler,
                   consumer_thread, pc, queues, out, emitted, raised, qinfo,
                   launchFailed, lifo>>

\* p.start() pickles the worker object for the new process.  An object of
\* the class multiprocessing.context.Process, made by mp.Process while no
\* session had replaced it, is pickled by the name of its class: while
\* mp.context.Process is another class, the pickler refuses it.
Picklable(cls) ==
    (cls = "Process" /\ "mp.context" \in DOMAIN Process)
        => Process["mp.context"] = "Process"

\* p.start() of a worker that collects the parent's handlers when it is started
WorkerRunLate(w) ==
    /\ MainFree
    /\ wstate[w] = "constructed"
    /\ IF Picklable(wmade[w].cls)
       THEN LET snap == IF wmade[w].cls = "LogregatorProcess"
                        THEN Snapshot(root[ParentPid])
                        ELSE <<>>
            IN  /\ wstate' = [wstate EXCEPT ![w] = "running"]
                /\ wsnap' = [wsnap EXCEPT ![w] = snap]
                /\ root' = [root EXCEPT ![w] = InstallAll(@, snap, 1)]
                /\ UNCHANGED raised
       ELSE /\ raised' = TRUE
            /\ UNCHANGED <<wstate, wsnap, root>>
    /\ UNCHANGED <<scn, cur, taken, apiVars, Process, sinkLevel, old_process, input_queue, handler,
                   consumer_thread, pc, queues, out, wborn, wmade, emitted,
                   qinfo, launchFailed, lifo>>

\* p.start(), called in the parent.  When the worker object cannot be
\* pickled, PicklingError reaches the application and the worker is not
\* started; otherwise LogregatorProcess.run in the worker, up to the call
\* of the target (the run of a plain worker installs nothing).
WorkerRun(w) ==
    /\ MainFree
    /\ wstate[w] = "constructed"
    /\ IF Picklable(wmade[w].cls)
       THEN /\ wstate' = [wstate EXCEPT ![w] = "running"]
            /\ root' = [root EXCEPT ![w] = InstallAll(@, wsnap[w], 1)]
            /\ UNCHANGED <<wsnap, raised>>
       ELSE /\ raised' = TRUE
            /\ UNCHANGED <<wstate, wsnap, root>>
    /\ UNCHANGED <<scn, cur, taken, apiVars, Process, sinkLevel, old_process, input_queue, handler,
                   consumer_thread, pc, queues, out, wborn, wmade, emitted,
                   qinfo, launchFailed, lifo>>

\* LogregatorProcess.run: the target returned or raised, the finally clause
WorkerFinish(w) ==
    /\ wstate[w] = "running"
    /\ ~InCall(w)
    /\ wstate' = [wstate EXCEPT ![w] = "done"]
    /\ LET r == UninstallAll(root[w], wsnap[w], 1)
       IN  /\ root' = [root EXCEPT ![w] = r.root]
           /\ raised' = (raised \/ r.exc # "none")
    /\ UNCHANGED <<scn, cur, taken, apiVars, Process, sinkLevel, old_process, input_queue, handler,
                   consumer_thread, pc, queues, out, wsnap, wborn, wmade, emitted,
                   qinfo, launchFailed, lifo>>

\* start() on a started session: the guard of start fails, nothing is done
StartAgain(s) ==
    /\ scn.again
    /\ s \in scn.sessions
    /\ MainReady
    /\ started(s)
    /\ noop' = noop \cup {<<"start", s>>}
    /\ UNCHANGED <<scn, cur, taken, root, Process, sinkLevel, old_process, input_queue, handler,
                   consumer_thread, pc, queues, out, wstate, wsnap, wborn, wmade, emitted,
                   raised, qinfo, launchFailed, lifo, dh, dhq, hcall, exited>>

\* stop() on a session that is not started: the guard of stop fails
StopAgain(s) ==
    /\ scn.again
    /\ s \in scn.sessions
    /\ MainReady
    /\ ~started(s)
    /\ noop' = noop \cup {<<"stop", s>>}
    /\ UNCHANGED <<scn, cur, taken, root, Process, sinkLevel, old_process, input_queue, handler,
                   consumer_thread, pc, queues, out, wstate, wsnap, wborn, wmade, emitted,
                   raised, qinfo, launchFailed, lifo, dh, dhq, hcall, exited>>

\* The last queue session s made (0: it never called start())
LastQueue(s) ==
    LET Q == {q \in DOMAIN qinfo : qinfo[q].owner = s}
    IN  IF Q = {} THEN 0 ELSE CHOOSE q \in Q : \A r \in Q : r <= q

\* The with-statement of session s is open: __enter__ called start() and
\* __exit__ has not been called since.
ScopeOpen(s) == LastQueue(s) > exited[s].at

\* __exit__(exc_type, exc_val, exc_tb), called when the body of the
\* with-statement returned (exc_type None) or raised: stop(), up to the join
Exit(s, exc_type) ==
    /\ exc_type \in scn.exits
    /\ s \in scn.sessions
    /\ ScopeOpen(s)
    /\ exited' = [exited EXCEPT ![s] = [exc |-> exc_type, at |-> LastQueue(s)]]
    /\ \/ StopBody(s) /\ UNCHANGED <<dh, dhq, hcall, noop>>
       \/ /\ ~started(s)
          /\ MainReady
          /\ UNCHANGED <<scn, cur, taken, root, Process, sinkLevel, old_process, input_queue,
                         handler, consumer_thread, pc, queues, out, wstate, wsnap,
                         wborn, wmade, emitted, raised, qinfo, launchFailed, lifo,
                         dh, dhq, hcall, noop>>

\* The entry of logging.root.handlers that is the handler of queue q
Entry(rt, q) ==
    rt.handlers[CHOOSE i \in DOMAIN rt.handlers : rt.handlers[i].output_queue = q]

\* dh.install(), called by the application in the creating process
HInstall ==
    /\ scn.api
    /\ MainReady
    /\ LET rt == root[ParentPid]
           new == install(rt, dh)
       IN  /\ root' = [root EXCEPT ![ParentPid] = new]
           /\ dh' = Entry(new, dh.output_queue)
           /\ hcall' = [op |-> "install", reg |-> InRoot(rt, dh.output_queue),
                        old |-> dh.old_root_level, exc |-> "none",
                        before |-> rt, after |-> new,
                        saved |-> IF InRoot(rt, dh.output_queue)
                                  THEN hcall.saved ELSE rt.level,
                        twice |-> InRoot(rt, dh.output_queue)]
    /\ UNCHANGED <<scn, cur, taken, Process, sinkLevel, old_process, input_queue, handler,
                   consumer_thread, pc, queues, out, wstate, wsnap, wborn, wmade, emitted,
                   raised, qinfo, launchFailed, lifo, dhq, noop, exited>>

\* dh.uninstall(), called by the application in the creating process
HUninstall ==
    /\ scn.api
    /\ MainReady
    /\ LET rt == root[ParentPid]
           r == uninstall(rt, dh.output_queue)
       IN  /\ root' = [root EXCEPT ![ParentPid] = r.root]
           /\ hcall' = [op |-> "uninstall", reg |-> InRoot(rt, dh.output_queue),
                        old |-> dh.old_root_level, exc |-> r.exc,
                        before |-> rt, after |-> r.root, saved |-> hcall.saved,
                        twice |-> hcall.twice]
    /\ UNCHANGED <<scn, cur, taken, Process, sinkLevel, old_process, input_queue, handler,
                   consumer_thread, pc, queues, out, wstate, wsnap, wborn, wmade, emitted,
                   raised, qinfo, launchFailed, lifo, dh, dhq, noop, exited>>

\* logging.root.addHandler(dh): the handler is put on the root logger
\* without install()
HAdd ==
    /\ scn.api
    /\ MainReady
    /\ ~InRoot(root[ParentPid], dh.output_queue)
    /\ root' = [root EXCEPT ![ParentPid].handlers = Append(@, dh)]
    /\ UNCHANGED <<scn, cur, taken, Process, sinkLevel, old_process, input_queue, handler,
                   consumer_thread, pc, queues, out, wstate, wsnap, wborn, wmade, emitted,
                   raised, qinfo, launchFailed, lifo, dh, dhq, hcall, noop, exited>>

\* exc_info of a record: None, an exception triple, or a false value that is
\* not None
ExcInfos == {"None", "exc", "False"}

\* exc_type of __exit__: None, or the type of the exception the body raised
ExcTypes == {"None", "exc"}

Next ==
    \/ \E s \in Sessions : Start(s)
    \/ \E s \in Sessions : StartFail(s)
    \/ \E s \in Sessions : StopBegin(s)
    \/ \E s \in Sessions : StopFinish(s)
    \/ \E s \in Sessions : Consume(s)
    \/ \E s \in Sessions : Dispatch(s)
    \/ \E s \in Sessions : ConsumerExit(s)
    \/ \E s \in Sessions, l \in Levels : SetLevel(s, l)
    \/ \E p \in Pids, name \in Names, l \in Levels, e \in ExcInfos : Log(p, name, l, e)
    \/ \E n \in 1..(MaxEmit + 1) : CallHandler(n)
    \/ \E n \in 1..(MaxEmit + 1) : NextHandler(n)
    \/ \E n \in 1..(MaxEmit + 1) : LogReturn(n)
    \/ \E w \in Workers : Construct(w)
    \/ \E w \in Workers : WorkerRun(w)
    \/ \E w \in Workers : WorkerFinish(w)
    \/ \E s \in Sessions : StartAgain(s)
    \/ \E s \in Sessions : StopAgain(s)
    \/ \E s \in Sessions, e \in ExcTypes : Exit(s, e)
    \/ HInstall
    \/ HUninstall
    \/ HAdd

Spec == Init /\ [][Next]_vars

\* ------------------------------------------------------- reading the history
\* The body (the logging call's number) of every entry a sink was given
Bodies(seq) == [i \in DOMAIN seq |-> seq[i].record.msg.body]

\* What session s's sink was given by the consumer loop of queue q
OutVia(s, q) == SelectSeq(out[s], LAMBDA e : e.via = q)

\* What session s's sink was given by any consumer loop
OutSession(s) == SelectSeq(out[s], LAMBDA e : e.via # 0)

Count(seq, n) == Cardinality({i \in DOMAIN seq : seq[i].record.msg.body = n})

\* stop() has returned for the window of queue q
QDone(q) == qinfo[q].ok /\ input_queue[qinfo[q].owner] # q

\* The consumer thread of queue q has finished
QFinished(q) ==
    qinfo[q].ok /\ (input_queue[qinfo[q].owner] = q =>
                        consumer_thread[qinfo[q].owner] = "finished")

AllStopped == \A s \in Sessions : ~started(s)

\* ------------------------------------------------------------------ claims

\* C1: a record logged in the creating process by a logger other than the
\* sink, at a level the sink admits, by a call made between start() returning
\* and stop() being called, while the sink's level stays as it was, is
\* dispatched to the sink at most once at any time and exactly once when
\* stop() has returned.
C1_LocalExactlyOnce ==
    \A q \in DOMAIN queues : \A n \in DOMAIN emitted :
        LET s == qinfo[q].owner
        IN  ( /\ q \in emitted[n].dueq
              /\ emitted[n].pid = my_pid(s)
              /\ emitted[n].name # LoggerName(s)
              /\ ~qinfo[q].levelChanged )
            => /\ Count(out[s], n) <= 1
               /\ QDone(q) => Count(OutVia(s, q), n) = 1

\* C2: every record a consumer loop dispatches carries the message
\* "[<attribution>] - <original>", the attribution being the sink's name for
\* a record logged in the creating process and "<sink name> PID <pid>", with
\* the pid of the process that logged it, otherwise.
C2_Attribution ==
    \A s \in Sessions : \A i \in DOMAIN out[s] :
        LET e == out[s][i]
            n == e.record.msg.body
        IN  e.via # 0 =>
              /\ n \in DOMAIN emitted
              /\ e.record.msg.pre =
                   << IF emitted[n].pid = ParentPid
                      THEN <<s>>
                      ELSE <<s, "PID", emitted[n].pid>> >>

C2_Witness ==
    \E s \in Sessions : \E i, j, k \in DOMAIN out[s] :
        /\ out[s][i].record.msg.pre = << <<s, "PID", 2>> >>
        /\ out[s][j].record.msg.pre = << <<s, "PID", 3>> >>
        /\ out[s][k].record.msg.pre = << <<s>> >>

\* C3: no record logged in the creating process under the sink's own name is
\* ever dispatched to the sink by the session, while a record logged under
\* the sink's name in a worker, put into the queue, is dispatched once by the
\* time the consumer thread has finished.
C3_AntiEcho ==
    \A q \in DOMAIN queues : \A n \in DOMAIN emitted :
        LET s == qinfo[q].owner
        IN  emitted[n].name = LoggerName(s) =>
              /\ emitted[n].pid = my_pid(s) => Count(OutSession(s), n) = 0
              /\ ( /\ emitted[n].pid # my_pid(s)
                   /\ q \in emitted[n].putq
                   /\ QFinished(q)
                   /\ ~qinfo[q].levelChanged ) => Count(OutVia(s, q), n) = 1

C3_Witness ==
    \E q \in DOMAIN queues : \E n, m \in DOMAIN emitted :
        LET s == qinfo[q].owner
        IN  /\ QDone(q)
            /\ emitted[n].name = LoggerName(s) /\ emitted[m].name = LoggerName(s)
            /\ emitted[n].pid = ParentPid /\ q \in emitted[n].putq
            /\ Count(OutSession(s), n) = 0
            /\ emitted[m].pid # ParentPid /\ q \in emitted[m].putq
            /\ Count(OutVia(s, q), m) = 1

\* C4: the records a consumer loop dispatches from its queue are dispatched
\* in the order in which they were put into it, none twice, the records of
\* one producer (a process, or a thread of the creating process that logs on
\* its own) in the order of that producer's calls; and once the loop has
\* ended on a queue in which nothing was filtered, they are exactly the
\* records put into it.
C4_Fifo ==
    \A q \in DOMAIN queues :
        LET s == qinfo[q].owner
            ids == Bodies(OutVia(s, q))
            arrived == qinfo[q].arrived
            Put == {n \in DOMAIN emitted : q \in emitted[n].putq}
            Pos(n) == CHOOSE k \in DOMAIN arrived : arrived[k] = n
            NoFiltering ==
                /\ ~qinfo[q].levelChanged
                /\ \A n \in Put : ~( /\ emitted[n].pid = my_pid(s)
                                     /\ emitted[n].name = LoggerName(s) )
        IN  /\ \A i \in DOMAIN ids : \E k \in DOMAIN arrived : arrived[k] = ids[i]
            /\ \A i, j \in DOMAIN ids :
                  i < j => /\ Pos(ids[i]) < Pos(ids[j])
                           /\ ( /\ emitted[ids[i]].pid = emitted[ids[j]].pid
                                /\ emitted[ids[i]].thread = emitted[ids[j]].thread )
                                 => ids[i] < ids[j]
            /\ (QFinished(q) /\ NoFiltering) =>
                  /\ ids = arrived
                  /\ {ids[i] : i \in DOMAIN ids} = Put
                  /\ Len(ids) = Cardinality(Put)

C4_Witness ==
    \E q \in DOMAIN queues :
        LET ids == Bodies(OutVia(qinfo[q].owner, q))
        IN  /\ QDone(q)
            /\ Len(ids) = 3
            /\ {emitted[ids[1]].pid, emitted[ids[3]].pid} = {2}
            /\ emitted[ids[2]].pid = 3
            /\ ids[2] < ids[1]

\* The logging calls a session owes its sink for the window of queue q: made
\* entirely inside the window, by the creating process or by a worker
\* constructed inside it, at a level the sink admitted
Due(q) == {n \in DOMAIN emitted : q \in emitted[n].dueq}

\* The logging calls that were in progress when start() or stop() was called
\* for the window of queue q
Straddling(q) == {n \in DOMAIN emitted : q \in emitted[n].ovq}

\* C5: when sessions are stopped in the reverse order of their starts
\* (nested), each sink has been given, by the time its stop() returns, every
\* record logged inside its own window (by the creating process or by a
\* worker constructed inside that window) that its level admits, each once,
\* and otherwise only records of calls that were in progress when its
\* start() or stop() was called.
C5_Nesting ==
    lifo =>
      \A q \in DOMAIN queues :
        LET s == qinfo[q].owner
            ids == Bodies(OutVia(s, q))
            got == {ids[i] : i \in DOMAIN ids}
        IN  (QDone(q) /\ ~qinfo[q].levelChanged) =>
               /\ Due(q) \subseteq got
               /\ got \subseteq Due(q) \cup Straddling(q)
               /\ Len(ids) = Cardinality(got)

\* C6: no record is dispatched to a sink by its session at a level below the
\* sink's effective level at the moment the consumer loop re-checked it,
\* wherever it was logged and whether or not the sink's level changed after
\* start().
C6_LevelFilter ==
    \A s \in Sessions : \A i \in DOMAIN out[s] :
        out[s][i].via # 0 => out[s][i].record.levelno >= out[s][i].eff

C6_Witness ==
    \E q \in DOMAIN queues : \E n, m \in DOMAIN emitted :
        /\ QDone(q) /\ qinfo[q].levelChanged
        /\ emitted[n].levelno = DEBUG /\ emitted[m].levelno = INFO
        /\ q \in emitted[n].putq /\ Count(OutVia(qinfo[q].owner, q), n) = 0
        /\ q \in emitted[m].putq /\ Count(OutVia(qinfo[q].owner, q), m) = 1

\* C7: once every session that was started has been stopped, whatever the
\* order of the start() and stop() calls, the root logger's level is the one
\* it had before the first start() (the application installing no handler of
\* its own, and every consumer thread having started).
C7_RootLevelRestored ==
    (AllStopped /\ MainFree /\ ~launchFailed /\ hcall.op = "none")
        => root[ParentPid].level = WARNING

\* C8: once every session that was started has been stopped, whatever the
\* order of the start() and stop() calls, the Process class of the patched
\* contexts is the original one.
C8_ProcessRestored ==
    (AllStopped /\ MainFree /\ ~launchFailed) => Process = Original

\* The consumer thread and the thread blocked in join() are scheduled: a loop
\* iteration, the end of the loop and the return of join() happen if they
\* can.  The application uses one session from the creating process and a
\* worker, or two sessions of which a thread may fail to start, and never
\* calls setLevel on a started sink.
LiveInit == Init /\ scn.id \in {"echo", "fail"}

LiveNext ==
    \/ \E s \in Sessions : Start(s)
    \/ \E s \in Sessions : StartFail(s)
    \/ \E s \in Sessions : StopBegin(s)
    \/ \E s \in Sessions : StopFinish(s)
    \/ \E s \in Sessions : Consume(s)
    \/ \E s \in Sessions : Dispatch(s)
    \/ \E s \in Sessions : ConsumerExit(s)
    \/ \E p \in Pids, name \in Names, l \in Levels, e \in ExcInfos : Log(p, name, l, e)
    \/ \E n \in 1..(MaxEmit + 1) : CallHandler(n)
    \/ \E n \in 1..(MaxEmit + 1) : NextHandler(n)
    \/ \E n \in 1..(MaxEmit + 1) : LogReturn(n)
    \/ \E w \in Workers : Construct(w)
    \/ \E w \in Workers : WorkerRun(w)
    \/ \E w \in Workers : WorkerFinish(w)

LiveSpec ==
    /\ LiveInit
    /\ [][LiveNext]_vars
    /\ \A s \in Sessions : /\ WF_vars(Consume(s))
                           /\ WF_vars(Dispatch(s))
                           /\ WF_vars(ConsumerExit(s))
                           /\ WF_vars(StopFinish(s))

\* C9: while stop() waits the queue is closed, a consumer thread has finished
\* only if its queue is closed and empty, stop() has returned only if the
\* queue is closed and every item put into it was taken by the loop, and a
\* stop() that was called on a started session returns.
C9_StopDrains ==
    /\ [](\A s \in Sessions :
             pc[s] = "joining" => queues[input_queue[s]].closed)
    /\ [](\A s \in Sessions :
             consumer_thread[s] = "finished" => Exhausted(queues, input_queue[s]))
    /\ [](\A q \in DOMAIN queues : QDone(q) => Exhausted(queues, q))
    /\ \A s \in Sessions : (pc[s] = "joining") ~> (pc[s] = "idle")

C9_Witness ==
    \E q \in DOMAIN queues :
        /\ QDone(q)
        /\ \E n, m \in DOMAIN emitted :
              /\ q \in emitted[n].putq
              /\ Count(OutVia(qinfo[q].owner, q), n) = 1
              /\ emitted[m].closedq = {q}

\* C10: no exception escapes a handler's emit to the logging call site, and
\* a queue that is closed never gains an item.
C10_EmitNeverRaises ==
    /\ [](\A n \in DOMAIN emitted : emitted[n].exc = "none")
    /\ [][\A q \in DOMAIN queues :
             queues[q].closed => Len(queues'[q].items) <= Len(queues[q].items)]_vars

\* How many entries of logging.root.handlers are the handler of queue q
Registered(rt, q) ==
    Cardinality({i \in DOMAIN rt.handlers : rt.handlers[i].output_queue = q})

\* C11: uninstall() called on a handler that never had a successful
\* install() (its _old_root_level is still None) raises RuntimeError and
\* leaves the root logger's handlers and level as they were.
C11_UninstallWithoutInstall ==
    (hcall.op = "uninstall" /\ hcall.old = None) =>
        /\ hcall.exc = "RuntimeError"
        /\ hcall.after = hcall.before

\* C12: install() on a handler that is already on the root logger changes
\* nothing (neither the root logger nor the level the handler recorded), the
\* handler is on the root logger once after any install(), and the next
\* uninstall() removes it and sets the root level to the one found by the
\* install() that registered it.
C12_InstallIdempotent ==
    /\ (hcall.op = "install" /\ hcall.reg) =>
          /\ hcall.after = hcall.before
          /\ dh.old_root_level = hcall.old
    /\ hcall.op = "install" => Registered(hcall.after, dh.output_queue) = 1
    /\ (hcall.op = "uninstall" /\ hcall.reg /\ hcall.old # None) =>
          /\ hcall.exc = "none"
          /\ Registered(hcall.after, dh.output_queue) = 0
          /\ hcall.after.level = hcall.saved

C12_Witness ==
    /\ hcall.op = "uninstall" /\ hcall.reg /\ hcall.twice
    /\ hcall.saved = WARNING
    /\ hcall.before.level = NOTSET + 1
    /\ hcall.after = FreshRoot

\* C13: a start() call on a session that has a consumer thread, and a
\* stop() call on a session that has none (never started, stopped already,
\* or left without a thread by a failed launch), change neither the
\* session's fields, nor the root logger, nor the patched Process class, nor
\* any queue, and no thread is made or waited for.
C13_NoOpCalls ==
    [][\A s \in Sessions :
         /\ ( /\ Start(s) \/ StartFail(s) \/ StartAgain(s)
              /\ consumer_thread[s] # "None" )
            => UNCHANGED <<input_queue, handler, consumer_thread, old_process, pc,
                           root, Process, queues>>
         /\ ( /\ StopBegin(s) \/ StopAgain(s)
              /\ consumer_thread[s] = "None" )
            => UNCHANGED <<input_queue, handler, consumer_thread, old_process, pc,
                           root, Process, queues>>]_vars

C13_Witness ==
    \E s \in Sessions : \E q \in DOMAIN queues :
        /\ <<"start", s>> \in noop /\ <<"stop", s>> \in noop
        /\ qinfo[q].owner = s /\ QDone(q)
        /\ ~started(s) /\ handler[s] = None /\ input_queue[s] = None
        /\ root[ParentPid] = FreshRoot /\ Process = Original

\* The entries of logging.root.handlers that are handlers made by session s
HandlersOf(s) ==
    LET hs == root[ParentPid].handlers
    IN  {hs[i].output_queue : i \in {j \in DOMAIN hs :
            /\ hs[j].output_queue \in DOMAIN qinfo
            /\ qinfo[hs[j].output_queue].owner = s}}

\* C14: when a session is started again after start() and stop() and the
\* thread of the new start() launched, then inside the new window it has a
\* new open queue, its one handler on the root logger is a new one on that
\* queue, and its consumer thread runs; the sink has been given, once the
\* new stop() has returned, every record of a logging call that was made
\* inside the new window, each once, and otherwise only records of calls
\* that were in progress when its start() or stop() was called, as in a
\* first window; and once no session is started, the root level and the
\* Process class are the original ones (the application installing no
\* handler of its own).
C14_Reenterable ==
    \A q \in DOMAIN queues :
        LET s == qinfo[q].owner
            Mine == {r \in 1..q : qinfo[r].owner = s}
            ids == Bodies(OutVia(s, q))
            got == {ids[i] : i \in DOMAIN ids}
        IN  (Mine # {q} /\ qinfo[q].ok) =>
              /\ (input_queue[s] = q /\ pc[s] = "idle") =>
                    /\ started(s)
                    /\ ~queues[q].closed
                    /\ handler[s] = q
                    /\ HandlersOf(s) = {q}
                    /\ Registered(root[ParentPid], q) = 1
                    /\ consumer_thread[s] = "running"
              /\ (QDone(q) /\ ~qinfo[q].levelChanged) =>
                    /\ Due(q) \subseteq got
                    /\ got \subseteq Due(q) \cup Straddling(q)
                    /\ Len(ids) = Cardinality(got)
              /\ (QDone(q) /\ AllStopped /\ MainFree /\ hcall.op = "none") =>
                    /\ root[ParentPid].level = WARNING
                    /\ Process = Original

\* C15: when the with-statement of a session has been left (__exit__ was
\* called, with or without an exception, stop() has returned, and the
\* session was not started again), the session is not started, has no
\* consumer thread and no handler, the handler made on entry is not on the
\* root logger, and a thread that was launched on entry has finished with
\* its queue closed and empty.
C15_ScopedUse ==
    \A s \in Sessions :
        LET q == LastQueue(s)
        IN  (exited[s].exc # "-" /\ exited[s].at = q /\ pc[s] = "idle") =>
              /\ ~started(s)
              /\ consumer_thread[s] = "None"
              /\ Registered(root[ParentPid], q) = 0
              /\ handler[s] = None
              /\ qinfo[q].ok => (QDone(q) /\ Exhausted(queues, q))

\* C16: after a start() in which the consumer thread failed to launch (and
\* until the session is started again), the session holds no queue and no
\* handler, the handler that start() made is not on the root logger, and,
\* that start() being the first call of the behaviour, the root level and the
\* Process class are the initial ones.
C16_FailedLaunchClean ==
    \A q \in DOMAIN qinfo :
        LET s == qinfo[q].owner
        IN  (~qinfo[q].ok /\ LastQueue(s) = q) =>
              /\ input_queue[s] = None
              /\ handler[s] = None
              /\ Registered(root[ParentPid], q) = 0
              /\ (Len(qinfo) = 1 /\ hcall.op = "none") =>
                    /\ root[ParentPid].level = WARNING
                    /\ Process = Original

\* C17: a start() in which the consumer thread failed to launch raises
\* nothing, and the session reports started = false from then until it is
\* started again.
C17_FailedLaunchNotStarted ==
    \A q \in DOMAIN qinfo :
        LET s == qinfo[q].owner
        IN  (~qinfo[q].ok /\ LastQueue(s) = q) =>
              /\ qinfo[q].exc = "none"
              /\ ~started(s)
              /\ consumer_thread[s] = "None"

C17_Witness ==
    \E q \in DOMAIN qinfo :
        /\ ~qinfo[q].ok /\ LastQueue(qinfo[q].owner) = q
        /\ input_queue[qinfo[q].owner] = q
        /\ ~started(qinfo[q].owner)
        /\ qinfo[q].exc = "none"
        /\ \E r \in DOMAIN qinfo : r # q /\ qinfo[r].ok /\ QDone(r)

\* C18: no queue ever holds a record that a consumer loop marked and
\* dispatched (every queued record is unmarked and has no prefix); every
\* record a consumer loop gave to a sink is marked and carries exactly one
\* prefix, that sink's; and a loop dispatches no logging call twice.
C18_NoReEnqueue ==
    /\ \A q \in DOMAIN queues : \A i \in DOMAIN queues[q].items :
          LET record == queues[q].items[i][2]
          IN  ~record.handled /\ record.msg.pre = <<>>
    /\ \A s \in Sessions : \A i \in DOMAIN out[s] :
          LET e == out[s][i]
          IN  e.via # 0 =>
                /\ e.record.handled
                /\ Len(e.record.msg.pre) = 1
                /\ e.record.msg.pre[1][1] = LoggerName(s)
                /\ Count(OutVia(s, e.via), e.record.msg.body) = 1

C18_Witness ==
    /\ Len(queues) = 2 /\ qinfo[1].owner # qinfo[2].owner
    /\ QDone(1) /\ QDone(2)
    /\ \A q \in DOMAIN queues : queues[q].items = <<>>
    /\ \E n \in DOMAIN emitted :
          /\ emitted[n].putq = {1, 2}
          /\ Count(OutVia(qinfo[1].owner, 1), n) = 1
          /\ Count(OutVia(qinfo[2].owner, 2), n) = 1

\* C19: while the target of a worker runs, a handler of every snapshot
\* entry is on the worker's root logger; when run() has ended (the target
\* returned or raised), the worker's root logger has no handler and its
\* level is the one it had before the first handler was installed.
C19_WorkerRestored ==
    \A w \in Workers :
        /\ wstate[w] = "running" =>
              \A i \in DOMAIN wsnap[w] : Registered(root[w], wsnap[w][i][2]) = 1
        /\ wstate[w] = "done" =>
              /\ root[w].handlers = <<>>
              /\ root[w].level = FreshRoot.level

\* C20: while a session is started (start() has returned, stop() has not
\* been called), its handler is on the root logger and the root level is
\* NOTSET + 1, whatever start() and stop() calls other sessions made (the
\* application installing no handler of its own).
C20_StartedStaysInstalled ==
    \A s \in Sessions :
        (InWindow(s) /\ hcall.op = "none") =>
            /\ Registered(root[ParentPid], handler[s]) = 1
            /\ root[ParentPid].level = NOTSET + 1

\* C21: whenever no stop() is in progress, a session reports started
\* exactly when its handler, its queue and its consumer thread are all
\* present, after any start() and stop() calls and failed thread launches.
C21_StartedIffAllPresent ==
    \A s \in Sessions :
        pc[s] = "idle" =>
            (started(s) <=> /\ handler[s] # None
                            /\ input_queue[s] # None
                            /\ consumer_thread[s] # "None")

C21_Witness ==
    \E s \in Sessions :
        /\ pc[s] = "idle"
        /\ ~started(s) /\ handler[s] # None /\ input_queue[s] # None
        /\ \E q \in DOMAIN qinfo : qinfo[q].owner = s /\ qinfo[q].ok /\ QDone(q)

\* The (level, queue) pairs of a sequence of handlers
Pairs(hs) == [i \in DOMAIN hs |-> <<hs[i].level, hs[i].output_queue>>]

\* C22: what a LogregatorProcess carries to the worker is fixed when it is
\* constructed: the (level, queue) pairs of the handlers then installed on
\* the parent's root logger.  While the worker runs, the handlers on its root
\* logger are those pairs, whatever sessions were started or stopped in the
\* parent since, and a worker constructed while the parent had no handler
\* installed runs with an untouched root logger.
C22_SnapshotAtConstruction ==
    \A w \in Workers :
        /\ wmade[w].cls = "LogregatorProcess" =>
                /\ wsnap[w] = Pairs(wmade[w].handlers)
                /\ wstate[w] = "running" =>
                        Pairs(root[w].handlers) = Pairs(wmade[w].handlers)
        /\ (wstate[w] = "running" /\ wmade[w].handlers = <<>>) =>
                root[w] = FreshRoot

C22_Witness ==
    \E w, v \in Workers :
        /\ wstate[w] = "running" /\ wstate[v] = "running"
        /\ wmade[w].cls = "LogregatorProcess"
        /\ wmade[w].handlers # <<>>
        /\ root[ParentPid].handlers # <<>>
        /\ Pairs(root[ParentPid].handlers) # Pairs(wmade[w].handlers)
        /\ Pairs(root[w].handlers) = Pairs(wmade[w].handlers)
        /\ wmade[v].handlers = <<>>
        /\ root[v] = FreshRoot

\* C23: a record dispatched to a sink by its session has a level that is at
\* least the sink's effective level when start() was called for that window
\* (the level of the handler made then) and at least the sink's effective
\* level when the consumer loop took it from the queue and re-checked it.  Lowering the sink's level after
\* start() therefore lets nothing below the start-time level through.
C23_StartLevelFloor ==
    \A s \in Sessions : \A i \in DOMAIN out[s] :
        out[s][i].via # 0 =>
            /\ out[s][i].record.levelno >= qinfo[out[s][i].via].level
            /\ out[s][i].record.levelno >= out[s][i].eff

C23_Witness ==
    \E q \in DOMAIN qinfo : \E n, m \in DOMAIN emitted :
        /\ QDone(q) /\ qinfo[q].level = INFO /\ qinfo[q].levelChanged
        /\ emitted[n].levelno = DEBUG /\ q \in emitted[n].dueq
        /\ q \notin emitted[n].putq
        /\ Count(OutVia(qinfo[q].owner, q), n) = 0
        /\ emitted[m].levelno = INFO
        /\ \E i \in DOMAIN out[qinfo[q].owner] :
              /\ out[qinfo[q].owner][i].via = q
              /\ out[qinfo[q].owner][i].record.msg.body = m
              /\ out[qinfo[q].owner][i].eff = DEBUG

====
